---- MODULE Spec2Model ----
(***************************************************************************)
(* Model of transcribo's pipeline (src/main.py): main() saves an uploaded  *)
(* video into the shared directory ./temp, to_chunks() splits it into      *)
(* video and audio chunks, transcribe_audio() turns every audio chunk into *)
(* text, main() accumulates and publishes the text, and the finally block  *)
(* of main() empties ./temp.  A Job is one run of main() with an upload;   *)
(* Streamlit runs every browser session's script in a thread of the same   *)
(* process, so sessions share the working directory and thus ./temp.       *)
(*                                                                         *)
(* Text is modelled as a sequence of tokens, string concatenation as \o.   *)
(* A file path is the tuple <<directory, prefix, number, extension>>.      *)
(***************************************************************************)
EXTENDS Integers, Sequences, FiniteSets, TLC

VARIABLES
    job,         \* per session: position in main() and its locals
    dir_exists,  \* whether ./temp exists
    files,       \* the files of ./temp: path -> session that wrote it last
    next_uuid    \* number of uuid4() values drawn so far

vars == <<job, dir_exists, files, next_uuid>>

\* Largest video duration explored, in time units.
MaxDuration == 5

\* Largest chunk duration explored, in the same units.
MaxChunk == 3

\* The browser sessions that may run main().
Sessions == {1, 2}

\* video.duration as read by to_chunks.
Durations == 0..MaxDuration

\* chunk_duration values given to to_chunks: main passes one positive value
\* (several time units long, so that durations between its multiples exist);
\* zero and a negative value exercise the function's own handling.
ChunkDurations == {0 - 1, 0} \cup 2..MaxChunk

\* Texts the recogniser may return (the empty text included).
Texts == {<<>>, <<"hello">>}

\* The string transcribe_audio returns when no text was recognised.
INAUDIBLE == <<"[Inaudible response]">>

\* The default directory of create_temp_dir.
TEMP_DIR == "./temp"

\* The value of a path variable that has not been assigned.
NoPath == <<>>

\* What sr.Recognizer.recognize_google (and reading the audio) may do.
CollabOutcomes ==
    [kind : {"text"}, text : Texts]
        \cup [kind : {"UnknownValueError", "RequestError", "Exception"}, text : {<<>>}]

---------------------------------------------------------------------------
(* Pure helpers *)

Min(a, b) == IF a <= b THEN a ELSE b

\* Python's floor division a // b for b # 0.
FloorDiv(a, b) == IF b > 0 THEN a \div b ELSE (0 - a) \div (0 - b)

\* A faulty NumChunks: the "+ 1" is forgotten.
NumChunksFloor(duration, chunk_duration) == FloorDiv(duration, chunk_duration)

\* num_chunks = int(duration // chunk_duration) + 1
NumChunks(duration, chunk_duration) == FloorDiv(duration, chunk_duration) + 1

\* start_time = i * chunk_duration
StartTime(i, chunk_duration) == i * chunk_duration

\* A faulty EndTime: the clamp to the video's duration is forgotten.
EndTimeUnclamped(i, chunk_duration, duration) == (i + 1) * chunk_duration

\* end_time = min((i + 1) * chunk_duration, duration)
EndTime(i, chunk_duration, duration) == Min((i + 1) * chunk_duration, duration)

\* os.path.join(temp_dir, f"{uuid4()}.mp4")
UploadPath(temp_dir, n) == <<temp_dir, "uuid", n, ".mp4">>

\* os.path.join(temp_dir, f"video_chunk_{i}.mp4")
VideoChunkPath(temp_dir, i) == <<temp_dir, "video_chunk_", i, ".mp4">>

\* os.path.join(temp_dir, f"audio_chunk_{i}.wav")
AudioChunkPath(temp_dir, i) == <<temp_dir, "audio_chunk_", i, ".wav">>

\* os.path.exists(path)
Exists(path) == path \in DOMAIN files

\* A faulty transcribe_audio: sr.RequestError is not caught.
TranscribeAudioRequestErrorEscapes(exists, c) ==
    IF ~exists
    THEN [raised |-> FALSE, value |-> INAUDIBLE]
    ELSE IF c.kind = "text"
         THEN [raised |-> FALSE, value |-> c.text]
         ELSE [raised |-> (c.kind = "RequestError"), value |-> INAUDIBLE]

\* A faulty transcribe_audio: a request failure gets a placeholder of its own.
TranscribeAudioServiceErrorText(exists, c) ==
    IF ~exists
    THEN [raised |-> FALSE, value |-> INAUDIBLE]
    ELSE IF c.kind = "text"
         THEN [raised |-> FALSE, value |-> c.text]
         ELSE IF c.kind = "RequestError"
              THEN [raised |-> FALSE, value |-> <<"[Service error]">>]
              ELSE [raised |-> FALSE, value |-> INAUDIBLE]

\* The body of transcribe_audio: every failure is caught and the placeholder
\* returned; "raised" says whether an exception leaves the function.
TranscribeAudio(exists, c) ==
    IF ~exists
    THEN [raised |-> FALSE, value |-> INAUDIBLE]
    ELSE IF c.kind = "text"
         THEN [raised |-> FALSE, value |-> c.text]
         ELSE [raised |-> FALSE, value |-> INAUDIBLE]

\* A faulty Accumulate: the newest chunk's text is put in front.
AccumulateInFront(transcription_result, chunk_transcription) ==
    chunk_transcription \o <<" ">> \o transcription_result

\* transcription_result += f"{chunk_transcription} "
Accumulate(transcription_result, chunk_transcription) ==
    transcription_result \o chunk_transcription \o <<" ">>

\* The text handed to the placeholder: f"{transcription_result}."
Snapshot(transcription_result) == transcription_result \o <<".">>

---------------------------------------------------------------------------
(* Initial state *)

NewJob(d, s) ==
    [pc |-> "start", duration |-> d, chunk_duration |-> s,
     uploaded |-> FALSE, temp_video |-> NoPath,
     num_chunks |-> 0, i |-> 0, video_chunks |-> <<>>, audio_chunks |-> <<>>,
     spans |-> <<>>, returned |-> FALSE,
     m_video_chunks |-> <<>>, m_audio_chunks |-> <<>>,
     idx |-> 0, transcription_result |-> <<>>, published |-> <<>>,
     collab |-> <<>>, outcomes |-> <<>>, calls |-> <<>>,
     messages |-> <<>>, tripped |-> FALSE,
     temp_files |-> {}, cleanup_runs |-> 0, cleanup_error |-> FALSE,
     written |-> {},
     to_chunks_failed |-> FALSE,
     first_run_error |-> FALSE, unhandled |-> FALSE]

InitWith(active, durations, chunk_durations) ==
    /\ \E d \in [Sessions -> durations], s \in [Sessions -> chunk_durations] :
         job = [j \in Sessions |->
                  IF j \in active
                  THEN NewJob(d[j], s[j])
                  ELSE [NewJob(0, 1) EXCEPT !.pc = "off"]]
    /\ dir_exists \in BOOLEAN
    /\ files = << >>
    /\ next_uuid = 0

Init == InitWith({1}, Durations, ChunkDurations)

\* One session, with the longest chunk duration (videos of one or two chunks).
InitCleanupTwice == InitWith({1}, Durations, {MaxChunk})

\* Two sessions run main() at once, each on a short video.
InitConcurrent == InitWith(Sessions, {1}, {2})

---------------------------------------------------------------------------
(* Steps of main() and of the functions it calls, for session j *)

Me(j) == job[j]

Write(j, path) == (path :> j) @@ files

Remove(path) == [p \in (DOMAIN files) \ {path} |-> files[p]]

\* main, lines 157-162: create_temp_dir(), then an uploaded file is given a
\* fresh name under ./temp.
Upload(j) ==
    /\ Me(j).pc = "start"
    /\ dir_exists' = TRUE
    /\ next_uuid' = next_uuid + 1
    /\ job' = [job EXCEPT ![j] =
                 [@ EXCEPT !.pc = "save", !.uploaded = TRUE,
                           !.temp_video = UploadPath(TEMP_DIR, next_uuid)]]
    /\ UNCHANGED files

\* main, lines 157-161 with no file uploaded: the script ends.
NoUpload(j) ==
    /\ Me(j).pc = "start"
    /\ dir_exists' = TRUE
    /\ job' = [job EXCEPT ![j] = [@ EXCEPT !.pc = "done"]]
    /\ UNCHANGED <<files, next_uuid>>

\* main, lines 164-169 (and 202-203 when open() or write() raises).
SaveUpload(j) ==
    /\ Me(j).pc = "save"
    /\ \E outcome \in {"ok", "open_raises", "write_raises"} :
         LET path == Me(j).temp_video IN
         IF outcome = "open_raises" \/ ~dir_exists
         THEN /\ job' = [job EXCEPT ![j] =
                           [@ EXCEPT !.pc = "cleanup",
                                     !.messages = Append(@, "error")]]
              /\ UNCHANGED files
         ELSE /\ files' = Write(j, path)
              /\ job' = [job EXCEPT ![j] =
                           [@ EXCEPT !.written = @ \cup {path},
                                     !.pc = IF outcome = "ok" THEN "to_chunks"
                                            ELSE "cleanup",
                                     !.messages = IF outcome = "ok" THEN @
                                                  ELSE Append(@, "error")]]
    /\ UNCHANGED <<dir_exists, next_uuid>>

\* A faulty ReturnEmpty: the except clauses hand back the lists built so far.
ReturnPartial(r) ==
    [r EXCEPT !.pc = "check_chunks", !.to_chunks_failed = TRUE,
              !.m_video_chunks = r.video_chunks,
              !.m_audio_chunks = r.audio_chunks]

\* to_chunks returning [], [] from its except clauses (lines 111-115).
ReturnEmpty(r) ==
    [r EXCEPT !.pc = "check_chunks", !.to_chunks_failed = TRUE,
              !.m_video_chunks = <<>>, !.m_audio_chunks = <<>>]

\* to_chunks, lines 73-81: the source must exist and decode, and
\* duration // chunk_duration must not divide by zero.
ToChunksOpen(j) ==
    /\ Me(j).pc = "to_chunks"
    /\ \E decodes \in BOOLEAN :
         IF ~Exists(Me(j).temp_video) \/ ~decodes \/ Me(j).chunk_duration = 0
         THEN job' = [job EXCEPT ![j] = ReturnEmpty(@)]
         ELSE job' = [job EXCEPT ![j] =
                        [@ EXCEPT !.pc = "chunk_video",
                                  !.num_chunks = NumChunks(Me(j).duration,
                                                         Me(j).chunk_duration),
                                  !.i = 0, !.video_chunks = <<>>,
                                  !.audio_chunks = <<>>]]
    /\ UNCHANGED <<dir_exists, files, next_uuid>>

\* A faulty check_memory_usage: st.stop() is called without reporting.
CheckMemoryUsageSilentStop(r, exceeded) ==
    IF exceeded
    THEN [r EXCEPT !.pc = "cleanup", !.tripped = TRUE]
    ELSE r

\* A faulty check_memory_usage: the error is shown but st.stop() is missing.
CheckMemoryUsageWithoutStop(r, exceeded) ==
    IF exceeded
    THEN [r EXCEPT !.tripped = TRUE, !.messages = Append(@, "memory")]
    ELSE r

\* check_memory_usage, lines 24-31: past the limit it reports the error and
\* calls st.stop(), whose exception is no Exception (no "except Exception"
\* clause catches it), so control goes straight to the finally block of main.
CheckMemoryUsage(r, exceeded) ==
    IF exceeded
    THEN [r EXCEPT !.pc = "cleanup", !.tripped = TRUE,
                   !.messages = Append(@, "memory")]
    ELSE r

\* to_chunks, lines 84-98: the memory check, then the video subclip
\* [start_time, end_time) is written.
ChunkVideo(j) ==
    /\ Me(j).pc = "chunk_video"
    /\ Me(j).i < Me(j).num_chunks
    /\ \E exceeded \in BOOLEAN, ok \in BOOLEAN :
         LET r == CheckMemoryUsage(Me(j), exceeded)
             path == VideoChunkPath(TEMP_DIR, r.i)
         IN
         IF r.pc = "cleanup"
         THEN /\ job' = [job EXCEPT ![j] = r]
              /\ UNCHANGED files
         ELSE IF ~ok \/ ~dir_exists
         THEN /\ job' = [job EXCEPT ![j] = ReturnEmpty(r)]
              /\ UNCHANGED files
         ELSE /\ files' = Write(j, path)
              /\ job' = [job EXCEPT ![j] =
                           [r EXCEPT !.pc = "chunk_audio",
                                     !.written = @ \cup {path},
                                     !.video_chunks = Append(@, path),
                                     !.spans = Append(@,
                                         <<StartTime(r.i, r.chunk_duration),
                                           EndTime(r.i, r.chunk_duration, r.duration)>>)]]
    /\ UNCHANGED <<dir_exists, next_uuid>>

\* to_chunks, lines 100-106: the audio of the subclip is written.
ChunkAudio(j) ==
    /\ Me(j).pc = "chunk_audio"
    /\ \E ok \in BOOLEAN :
         LET path == AudioChunkPath(TEMP_DIR, Me(j).i) IN
         IF ~ok \/ ~dir_exists
         THEN /\ job' = [job EXCEPT ![j] = ReturnEmpty(@)]
              /\ UNCHANGED files
         ELSE /\ files' = Write(j, path)
              /\ job' = [job EXCEPT ![j] =
                           [@ EXCEPT !.pc = "chunk_video",
                                     !.written = @ \cup {path},
                                     !.audio_chunks = Append(@, path),
                                     !.i = @ + 1]]
    /\ UNCHANGED <<dir_exists, next_uuid>>

\* to_chunks, lines 108-109: the loop is over, both lists are returned.
ToChunksReturn(j) ==
    /\ Me(j).pc = "chunk_video"
    /\ Me(j).i >= Me(j).num_chunks
    /\ job' = [job EXCEPT ![j] =
                 [@ EXCEPT !.pc = "check_chunks", !.returned = TRUE,
                           !.m_video_chunks = Me(j).video_chunks,
                           !.m_audio_chunks = Me(j).audio_chunks]]
    /\ UNCHANGED <<dir_exists, files, next_uuid>>

\* A faulty CheckChunks: the early return leaves main without passing through
\* the finally block.
CheckChunksReturnSkipsFinally(j) ==
    /\ Me(j).pc = "check_chunks"
    /\ IF Me(j).m_video_chunks # <<>> /\ Me(j).m_audio_chunks # <<>>
       THEN job' = [job EXCEPT ![j] =
                      [@ EXCEPT !.pc = "transcribe", !.idx = 0,
                                !.transcription_result = <<>>,
                                !.messages = Append(@, "split")]]
       ELSE job' = [job EXCEPT ![j] =
                      [@ EXCEPT !.pc = "done",
                                !.messages = Append(@, "failed")]]
    /\ UNCHANGED <<dir_exists, files, next_uuid>>

\* main, lines 173-183.
CheckChunks(j) ==
    /\ Me(j).pc = "check_chunks"
    /\ IF Me(j).m_video_chunks # <<>> /\ Me(j).m_audio_chunks # <<>>
       THEN job' = [job EXCEPT ![j] =
                      [@ EXCEPT !.pc = "transcribe", !.idx = 0,
                                !.transcription_result = <<>>,
                                !.messages = Append(@, "split")]]
       ELSE job' = [job EXCEPT ![j] =
                      [@ EXCEPT !.pc = "cleanup",
                                !.messages = Append(@, "failed")]]
    /\ UNCHANGED <<dir_exists, files, next_uuid>>

\* main, lines 186-198: one iteration of the transcription loop.
TranscribeChunk(j) ==
    /\ Me(j).pc = "transcribe"
    /\ Me(j).idx < Len(Me(j).m_audio_chunks)
    /\ \E c \in CollabOutcomes :
         LET r == Me(j)
             chunk == r.m_audio_chunks[r.idx + 1]
             seen == IF Exists(chunk) THEN c
                     ELSE [kind |-> "FileNotFoundError", text |-> <<>>]
             res == TranscribeAudio(Exists(chunk), c)
             result == Accumulate(r.transcription_result, res.value)
         IN
         IF res.raised
         THEN job' = [job EXCEPT ![j] =
                        [@ EXCEPT !.pc = "cleanup",
                                  !.calls = Append(@, chunk),
                                  !.collab = Append(@, seen),
                                  !.messages = Append(@, "error")]]
         ELSE job' = [job EXCEPT ![j] =
                        [@ EXCEPT !.idx = @ + 1,
                                  !.calls = Append(@, chunk),
                                  !.collab = Append(@, seen),
                                  !.outcomes = Append(@, res.value),
                                  !.transcription_result = result,
                                  !.published = Append(@, Snapshot(result))]]
    /\ UNCHANGED <<dir_exists, files, next_uuid>>

\* main, line 200.
TranscriptionCompleted(j) ==
    /\ Me(j).pc = "transcribe"
    /\ Me(j).idx >= Len(Me(j).m_audio_chunks)
    /\ job' = [job EXCEPT ![j] =
                 [@ EXCEPT !.pc = "cleanup",
                           !.messages = Append(@, "completed")]]
    /\ UNCHANGED <<dir_exists, files, next_uuid>>

\* A faulty CleanupFailure: the exception leaves the finally block.
CleanupFailureEscapes(r) ==
    [r EXCEPT !.pc = "done", !.cleanup_error = TRUE, !.unhandled = TRUE]

\* main, lines 217-218: an exception raised by the cleanup is caught and
\* printed, and the cleanup is over.
CleanupFailure(r) == [r EXCEPT !.pc = "done", !.cleanup_error = TRUE]

\* main, lines 205-208 (and 217-218 when os.listdir raises).
CleanupList(j) ==
    /\ Me(j).pc = "cleanup"
    /\ IF dir_exists
       THEN job' = [job EXCEPT ![j] =
                      [@ EXCEPT !.pc = "cleanup_files",
                                !.cleanup_runs = @ + 1,
                                !.temp_files = DOMAIN files]]
       ELSE job' = [job EXCEPT ![j] =
                      CleanupFailure([@ EXCEPT !.cleanup_runs = @ + 1])]
    /\ UNCHANGED <<dir_exists, files, next_uuid>>

\* main, lines 209-212 (and 217-218 when os.remove raises): one listed file,
\* in the arbitrary order of os.listdir.
CleanupRemove(j) ==
    /\ Me(j).pc = "cleanup_files"
    /\ \E file \in Me(j).temp_files, ok \in BOOLEAN :
         IF ~Exists(file)
         THEN /\ job' = [job EXCEPT ![j] = [@ EXCEPT !.temp_files = @ \ {file}]]
              /\ UNCHANGED files
         ELSE IF ok
         THEN /\ files' = Remove(file)
              /\ job' = [job EXCEPT ![j] = [@ EXCEPT !.temp_files = @ \ {file}]]
         ELSE /\ job' = [job EXCEPT ![j] = CleanupFailure(@)]
              /\ UNCHANGED files
    /\ UNCHANGED <<dir_exists, next_uuid>>

\* main, lines 214-216 (and 217-218 when os.listdir or os.rmdir raises).
CleanupRmdir(j) ==
    /\ Me(j).pc = "cleanup_files"
    /\ Me(j).temp_files = {}
    /\ \E ok \in BOOLEAN :
         IF ~dir_exists \/ (DOMAIN files = {} /\ ~ok)
         THEN /\ job' = [job EXCEPT ![j] = CleanupFailure(@)]
              /\ UNCHANGED dir_exists
         ELSE /\ job' = [job EXCEPT ![j] = [@ EXCEPT !.pc = "done"]]
              /\ dir_exists' = (DOMAIN files # {})
    /\ UNCHANGED <<files, next_uuid>>

\* The finally block of main (lines 205-218) entered a second time, right
\* after its first run.
CleanupAgain(j) ==
    /\ Me(j).pc = "done"
    /\ Me(j).cleanup_runs = 1
    /\ job' = [job EXCEPT ![j] =
                 [@ EXCEPT !.pc = "cleanup", !.first_run_error = Me(j).cleanup_error,
                           !.cleanup_error = FALSE]]
    /\ UNCHANGED <<dir_exists, files, next_uuid>>

Next ==
    \E j \in Sessions :
        \/ Upload(j)
        \/ NoUpload(j)
        \/ SaveUpload(j)
        \/ ToChunksOpen(j)
        \/ ChunkVideo(j)
        \/ ChunkAudio(j)
        \/ ToChunksReturn(j)
        \/ CheckChunks(j)
        \/ TranscribeChunk(j)
        \/ TranscriptionCompleted(j)
        \/ CleanupList(j)
        \/ CleanupRemove(j)
        \/ CleanupRmdir(j)

\* One session runs main().
Spec == Init /\ [][Next]_vars

\* Two sessions run main() concurrently on the shared ./temp.
SpecConcurrent == InitConcurrent /\ [][Next]_vars

\* One session runs main(); every step that can be taken is taken in the end
\* (the script's thread is scheduled until main returns).
FairSpec == Spec /\ WF_vars(Next)

NextCleanupTwice == Next \/ \E j \in Sessions : CleanupAgain(j)

\* One session runs main(), and the cleanup block is run once more after it.
SpecCleanupTwice == InitCleanupTwice /\ [][NextCleanupTwice]_vars

---------------------------------------------------------------------------
(* Properties *)

Running == {j \in Sessions : job[j].pc # "off"}

\* ceil(a / b) for b > 0.
CeilDiv(a, b) == (a + b - 1) \div b

\* to_chunks ran to its return statement with a positive chunk duration.
SplitSucceeded(j) == job[j].returned /\ job[j].chunk_duration > 0

\* C1: a successful to_chunks with chunk duration S > 0 on a video of
\* duration D returns exactly ceil(D/S) segments, numbered 0..N-1 without
\* gaps; a duration that is a multiple of S gets no extra trailing segment.
C1_SegmentCountIsCeil ==
    \A j \in Running :
        SplitSucceeded(j) =>
            LET n == CeilDiv(job[j].duration, job[j].chunk_duration) IN
            /\ Len(job[j].m_video_chunks) = n
            /\ Len(job[j].m_audio_chunks) = n
            /\ \A k \in 1..n :
                 /\ job[j].m_video_chunks[k] = VideoChunkPath(TEMP_DIR, k - 1)
                 /\ job[j].m_audio_chunks[k] = AudioChunkPath(TEMP_DIR, k - 1)

\* C2: after a successful to_chunks with S > 0, segment i spans
\* [i*S, min((i+1)*S, D)), the first segment starts at 0, every segment starts
\* where the one before it ends, the last one ends at D, and no two segments
\* overlap: the segments partition [0, D).
C2_SegmentsPartitionDuration ==
    \A j \in Running :
        SplitSucceeded(j) =>
            LET sp == job[j].spans
                d == job[j].duration
                s == job[j].chunk_duration
            IN
            /\ Len(sp) = Len(job[j].m_video_chunks)
            /\ Len(sp) >= 1
            /\ sp[1][1] = 0
            /\ sp[Len(sp)][2] = d
            /\ \A k \in 1..Len(sp) :
                 /\ sp[k][1] = (k - 1) * s
                 /\ sp[k][2] = IF k * s <= d THEN k * s ELSE d
                 /\ sp[k][1] <= sp[k][2]
            /\ \A k \in 1..(Len(sp) - 1) : sp[k][2] = sp[k + 1][1]
            /\ \A k, m \in 1..Len(sp) :
                 k < m => \A t \in 0..d :
                            ~(/\ sp[k][1] <= t /\ t < sp[k][2]
                              /\ sp[m][1] <= t /\ t < sp[m][2])
            /\ \A t \in 0..(d - 1) :
                 \E k \in 1..Len(sp) : sp[k][1] <= t /\ t < sp[k][2]

\* C2 witness: a 5-unit video with 2-unit chunks was split into [0,2), [2,4)
\* and [4,5) (the 150 s / 60 s scenario in units of 30 s).
C2_Witness ==
    \E j \in Running :
        /\ SplitSucceeded(j)
        /\ job[j].spans = << <<0, 2>>, <<2, 4>>, <<4, 5>> >>

\* The outcomes, each followed by one blank, in order.
RECURSIVE Concatenation(_)
Concatenation(outs) ==
    IF outs = <<>> THEN <<>>
    ELSE Head(outs) \o <<" ">> \o Concatenation(Tail(outs))

IsPrefix(a, b) == Len(a) <= Len(b) /\ SubSeq(b, 1, Len(a)) = a

\* The job is in, or past, the transcription loop of main.
InLoop(j) == "split" \in {job[j].messages[n] : n \in 1..Len(job[j].messages)}

\* C3: after segment i has been processed the accumulated transcript is the
\* concatenation, in index order, of the outcomes of segments 0..i (each
\* followed by one blank, as main formats it) and holds nothing of a later
\* segment; the segments are transcribed one at a time in index order, and
\* the snapshot published for segment i is built from that transcript.
C3_TranscriptIsConcatenation ==
    \A j \in Running :
        LET r == job[j] IN
        /\ Len(r.calls) = r.idx
        /\ Len(r.outcomes) = r.idx
        /\ Len(r.published) = r.idx
        /\ r.idx <= Len(r.m_audio_chunks)
        /\ \A n \in 1..Len(r.calls) : r.calls[n] = r.m_audio_chunks[n]
        /\ r.transcription_result = Concatenation(r.outcomes)
        /\ \A n \in 1..Len(r.published) :
             r.published[n] = Concatenation(SubSeq(r.outcomes, 1, n)) \o <<".">>

\* C3 witness: two segments processed, "hello" then the placeholder.
C3_Witness ==
    \E j \in Running :
        /\ job[j].idx = 2
        /\ job[j].outcomes = << <<"hello">>, INAUDIBLE >>
        /\ job[j].transcription_result
             = <<"hello", " ", "[Inaudible response]", " ">>

\* C4 as claimed: every published snapshot is a prefix of every later one.
C4_SnapshotsArePrefixes ==
    \A j \in Running :
        \A m, n \in 1..Len(job[j].published) :
            m < n => IsPrefix(job[j].published[m], job[j].published[n])

\* C4, amended: every published snapshot ends with the "." that main appends,
\* and without that final "." it is a prefix of every later snapshot.
C4_SnapshotsGrowUpToFinalDot ==
    \A j \in Running :
        LET pub == job[j].published IN
        /\ \A n \in 1..Len(pub) : Len(pub[n]) >= 1 /\ pub[n][Len(pub[n])] = "."
        /\ \A m, n \in 1..Len(pub) :
             m < n => /\ IsPrefix(SubSeq(pub[m], 1, Len(pub[m]) - 1), pub[n])
                      /\ Len(pub[m]) < Len(pub[n])

\* C4 witness: two snapshots were published, the second one longer.
C4_Witness ==
    \E j \in Running :
        /\ Len(job[j].published) >= 2
        /\ job[j].published[1] = <<"hello", " ", ".">>
        /\ job[j].published[2] = <<"hello", " ", "[Inaudible response]", " ", ".">>

\* C5: transcribe_audio never raises, whatever the recogniser does: every
\* call yields an outcome string (the text, or the placeholder), main never
\* reports an error from the loop, and a job that entered the loop ends
\* completed with an attempt and a snapshot for every segment.
C5_SegmentFailureDoesNotAbort ==
    \A j \in Running :
        LET r == job[j] IN
        /\ \A exists \in BOOLEAN, c \in CollabOutcomes :
             /\ ~TranscribeAudio(exists, c).raised
             /\ TranscribeAudio(exists, c).value \in Texts \cup {INAUDIBLE}
        /\ Len(r.outcomes) = Len(r.calls)
        /\ Len(r.collab) = Len(r.calls)
        /\ \A n \in 1..Len(r.outcomes) :
             r.outcomes[n] = IF r.collab[n].kind = "text"
                             THEN r.collab[n].text ELSE INAUDIBLE
        /\ InLoop(j) =>
             /\ \A n \in 1..Len(r.messages) : r.messages[n] \notin {"error", "failed"}
             /\ r.pc \in {"transcribe", "cleanup", "cleanup_files", "done"}
             /\ r.pc # "transcribe" =>
                  /\ r.messages[Len(r.messages)] = "completed"
                  /\ Len(r.calls) = Len(r.m_audio_chunks)
                  /\ Len(r.published) = Len(r.m_audio_chunks)

\* C5 witness: the first segment's request failed, the second was recognised,
\* and the job completed.
C5_Witness ==
    \E j \in Running :
        /\ job[j].pc = "done"
        /\ Len(job[j].collab) >= 2
        /\ job[j].collab[1].kind = "RequestError"
        /\ job[j].collab[2] = [kind |-> "text", text |-> <<"hello">>]
        /\ job[j].messages = <<"split", "completed">>

\* The files in ./temp that session j wrote last.
Artifacts(j) == {p \in DOMAIN files : files[p] = j}

C7_NoSharedArtifactNames ==
    \A j, k \in Running :
        j # k => job[j].written \cap job[k].written = {}

\* A job whose work is over: it is in its own cleanup or has ended.
Finished(j) == job[j].pc \in {"cleanup", "cleanup_files", "done", "off"}

\* C8: the cleanup of one job never removes a file that another job wrote
\* and has not finished using: a file disappears from ./temp only when the
\* job that wrote it last is in its own cleanup or has ended.
C8_CleanupSparesOtherJobs ==
    [][\A p \in DOMAIN files :
          p \notin DOMAIN files' => Finished(files[p])]_vars

\* C9: once the memory guard has tripped, no segment is written and no
\* transcription is requested any more, the last thing reported is the
\* memory error (never a completion), and the job goes to its cleanup, which
\* has run once when the job has ended.
C9_MemoryTripStopsJob ==
    /\ [](\A j \in Running :
            job[j].tripped =>
                LET r == job[j] IN
                /\ r.pc \in {"cleanup", "cleanup_files", "done"}
                /\ r.calls = <<>> /\ r.published = <<>>
                /\ ~r.returned
                /\ r.messages # <<>>
                /\ r.messages[Len(r.messages)] = "memory"
                /\ \A n \in 1..Len(r.messages) :
                     r.messages[n] \notin {"completed", "split"}
                /\ r.pc \in {"cleanup_files", "done"} => r.cleanup_runs = 1)
    /\ [][\A j \in Running :
            job[j].tripped =>
                /\ job'[j].written = job[j].written
                /\ job'[j].video_chunks = job[j].video_chunks
                /\ job'[j].audio_chunks = job[j].audio_chunks
                /\ job'[j].calls = job[j].calls
                /\ job'[j].messages = job[j].messages]_vars

\* C9 witness: the guard tripped at the second check point, after one segment
\* had been written, and the job has ended after its cleanup.
C9_Witness ==
    \E j \in Running :
        /\ job[j].tripped
        /\ job[j].pc = "done"
        /\ Len(job[j].audio_chunks) = 1
        /\ job[j].num_chunks >= 2
        /\ job[j].messages = <<"memory">>
        /\ job[j].cleanup_runs = 1

\* C10: in the transcription loop, the audio chunk of every segment already
\* transcribed has been deleted.
C10_ProcessedSegmentsAreDeleted ==
    \A j \in Running :
        job[j].pc = "transcribe" =>
            \A n \in 1..job[j].idx : ~Exists(job[j].m_audio_chunks[n])

\* The messages that tell the caller how the job ended: st.success on
\* completion (line 200), st.error on failure (lines 179, 203, 30).
TerminalMessages == {"completed", "failed", "error", "memory"}

\* The positions of the terminal messages session j has emitted.
Terminals(j) ==
    {n \in 1..Len(job[j].messages) : job[j].messages[n] \in TerminalMessages}

\* C11: a job that started (a video was uploaded) never emits more than one
\* terminal message, has emitted exactly one when it has ended, ends with the
\* completion message whenever snapshots were published, and does end.
C11_OneTerminalSignal ==
    /\ [](\A j \in Running :
            /\ Cardinality(Terminals(j)) <= 1
            /\ (job[j].pc = "done" /\ job[j].uploaded) =>
                 Cardinality(Terminals(j)) = 1
            /\ (job[j].pc \in {"cleanup", "cleanup_files", "done"}
                  /\ job[j].published # <<>>) =>
                 job[j].messages[Len(job[j].messages)] = "completed")
    /\ \A j \in Sessions :
         [](job[j].uploaded =>
              <>(job[j].pc = "done" /\ Cardinality(Terminals(j)) = 1))

\* C11 witness: a job that published two snapshots has ended, its only
\* terminal message being the completion.
C11_Witness ==
    \E j \in Running :
        /\ job[j].pc = "done"
        /\ Len(job[j].published) = 2
        /\ job[j].messages = <<"split", "completed">>

\* C12: the cleanup block run twice in a row lets no exception escape, and
\* after a first run that met no error ./temp is gone (and empty), and stays
\* gone through the second run, whose os.listdir error is caught.
C12_CleanupTwiceIsQuiet ==
    \A j \in Running :
        LET r == job[j] IN
        /\ ~r.unhandled
        /\ (r.pc = "done" /\ r.cleanup_runs = 1 /\ ~r.cleanup_error) =>
             (~dir_exists /\ DOMAIN files = {})
        /\ (r.cleanup_runs = 2 /\ ~r.first_run_error) =>
             /\ ~dir_exists
             /\ r.pc = "done" /\ r.cleanup_error

\* C12 witness: a job that wrote an upload and chunks ran its cleanup without
\* error, which removed ./temp, and then ran it a second time.
C12_Witness ==
    \E j \in Running :
        /\ job[j].pc = "done"
        /\ job[j].cleanup_runs = 2
        /\ ~job[j].first_run_error
        /\ Cardinality(job[j].written) >= 3
        /\ ~dir_exists
        /\ ~job[j].unhandled

C14_TerminalEventAfterCleanup ==
    \A j \in Running :
        Terminals(j) # {} => (job[j].pc = "done" /\ job[j].cleanup_runs = 1)

\* C15: for a video of duration 0 (and S > 0) a to_chunks call in which no
\* step fails yields zero segments, and the job then ends completed with an
\* empty transcript, without a failure report and without any transcription
\* request.
C15_ZeroDurationCompletesEmpty ==
    \A j \in Running :
        (SplitSucceeded(j) /\ job[j].duration = 0) =>
            /\ job[j].m_video_chunks = <<>> /\ job[j].m_audio_chunks = <<>>
            /\ job[j].calls = <<>>
            /\ job[j].transcription_result = <<>>
            /\ \A n \in 1..Len(job[j].messages) : job[j].messages[n] # "failed"
            /\ job[j].pc = "done" =>
                 job[j].messages[Len(job[j].messages)] = "completed"

\* The outcomes session j got for collaborator results of the given kind.
OutcomesOf(j, kind) ==
    {job[j].outcomes[n] : n \in {m \in 1..Len(job[j].collab) :
                                   job[j].collab[m].kind = kind}}

\* C16 as claimed: recognised text is returned as the text, and the outcome
\* for "could not understand" differs from the outcome for a request failure.
C16_OutcomesDistinguished ==
    \A j \in Running :
        /\ \A n \in 1..Len(job[j].collab) :
             job[j].collab[n].kind = "text" =>
                 job[j].outcomes[n] = job[j].collab[n].text
        /\ OutcomesOf(j, "UnknownValueError") \cap OutcomesOf(j, "RequestError") = {}

\* C16, amended: recognised text is returned as the text; "could not
\* understand", a request failure, a missing file and any other exception all
\* give the one placeholder "[Inaudible response]".
C16_FailuresShareOnePlaceholder ==
    \A j \in Running :
        /\ \A n \in 1..Len(job[j].collab) :
             job[j].collab[n].kind = "text" =>
                 job[j].outcomes[n] = job[j].collab[n].text
        /\ \A kind \in {"UnknownValueError", "RequestError", "FileNotFoundError",
                        "Exception"} :
             OutcomesOf(j, kind) \subseteq {<<"[Inaudible response]">>}

\* C16 witness: one job got "could not understand", a request failure and a
\* recognised text, and the first two outcomes are the same placeholder.
C16_Witness ==
    \E j \in Running :
        /\ Len(job[j].collab) = 3
        /\ job[j].collab[1].kind = "UnknownValueError"
        /\ job[j].collab[2].kind = "RequestError"
        /\ job[j].collab[3] = [kind |-> "text", text |-> <<"hello">>]
        /\ job[j].outcomes
             = << <<"[Inaudible response]">>, <<"[Inaudible response]">>, <<"hello">> >>

\* C17: with a chunk duration that is zero or negative, to_chunks writes no
\* segment file and returns no segment, and main reports the failure without
\* requesting any transcription.
C17_NonPositiveDurationRejected ==
    \A j \in Running :
        job[j].chunk_duration <= 0 =>
            /\ job[j].written \subseteq {job[j].temp_video}
            /\ job[j].video_chunks = <<>> /\ job[j].audio_chunks = <<>>
            /\ job[j].m_video_chunks = <<>> /\ job[j].m_audio_chunks = <<>>
            /\ job[j].calls = <<>>
            /\ \A n \in 1..Len(job[j].messages) :
                 job[j].messages[n] \notin {"split", "completed"}

\* C18: a removal that fails during the cleanup is not escalated, and the
\* cleanup still removes every other file: as the code's loop ends at the
\* first failing removal, at most one removal fails, so when the job has ended
\* at most that one file is left in ./temp.
C18_CleanupIsBestEffort ==
    \A j \in Running :
        (job[j].pc = "done" /\ job[j].uploaded) =>
            /\ ~job[j].unhandled
            /\ Cardinality(DOMAIN files) <= 1

\* to_chunks has come back to main, one way or the other.
ToChunksOver(j) == job[j].returned \/ job[j].to_chunks_failed

\* C19: with S > 0, a to_chunks call in which no step fails returns two
\* non-empty lists of equal length whose k-th entries are the video and the
\* audio file of slice k; so its result is empty exactly when the split
\* failed, and main reports the failure exactly then and goes on to the
\* transcription otherwise.
C19_EmptyResultIffSplitFailed ==
    \A j \in Running :
        LET r == job[j] IN
        r.chunk_duration > 0 =>
            /\ r.returned =>
                 /\ Len(r.m_video_chunks) >= 1
                 /\ Len(r.m_video_chunks) = Len(r.m_audio_chunks)
                 /\ Len(r.m_video_chunks) = Len(r.spans)
                 /\ \A k \in 1..Len(r.m_video_chunks) :
                      /\ r.m_video_chunks[k] = <<"./temp", "video_chunk_", k - 1, ".mp4">>
                      /\ r.m_audio_chunks[k] = <<"./temp", "audio_chunk_", k - 1, ".wav">>
            /\ ~(r.returned /\ r.to_chunks_failed)
            /\ ToChunksOver(j) =>
                 /\ (r.m_video_chunks = <<>> \/ r.m_audio_chunks = <<>>)
                      <=> r.to_chunks_failed
                 /\ r.pc # "check_chunks" =>
                      /\ r.to_chunks_failed <=> r.messages = <<"failed">>
                      /\ r.returned <=> r.messages[1] = "split"

\* C19 witness: a 5-unit video was split into three pairs of files and main
\* went on to the transcription.
C19_Witness ==
    \E j \in Running :
        /\ job[j].returned
        /\ job[j].chunk_duration = 2 /\ job[j].duration = 5
        /\ Len(job[j].m_video_chunks) = 3 /\ Len(job[j].m_audio_chunks) = 3
        /\ job[j].pc = "transcribe"
        /\ job[j].messages = <<"split">>

====
